---------------------------- MODULE Spec2Model ----------------------------
(***************************************************************************)
(* Model of the weekly-ingestor report service:                            *)
(*   src/api/timely_to_excel.py  TimelyReport (paged fetch, aggregation    *)
(*                               per day, spreadsheet rows)                *)
(*   src/api/main.py             the /generate-report and /analyze-data    *)
(*                               handlers and analyze_data_intelligence    *)
(*                                                                         *)
(* Representation.                                                         *)
(*   - a text that the code inspects character by character (a note, a     *)
(*     project name, a prefix) is a sequence of one-character strings;     *)
(*   - a date text "YYYY-MM-DD" is the triple <<Y, M, D>>, a datetime is   *)
(*     its proleptic Gregorian ordinal (datetime.toordinal), and a text    *)
(*     "DD/MM/YYYY" is the triple <<D, M, Y>>;                             *)
(*   - a dict is a sequence of [key, value] records in insertion order;    *)
(*   - hours are counted in halves: 0, 0.5 and 1 are 0, 1 and 2.           *)
(***************************************************************************)
EXTENDS Integers, Sequences, FiniteSets, TLC

VARIABLES
    pc,               \* position of the handler: idle, get_events, done
    request,          \* the ReportRequest / DataAnalysisRequest being served
    page,             \* get_events: next page to request
    all_events,       \* get_events: events accumulated so far
    requests,         \* the page requests sent to the event source, in order
    bodies,           \* the bodies the event source answered with, in order
    filtered_events,  \* events handed to process_events
    processed,        \* outcome of process_events: returned map or raised
    today,            \* date_today.today() read by the analysis
    analysis,         \* result of analyze_data_intelligence
    formatted_data,   \* JSON branch of generate_report: the record list
    json_groups,      \* JSON branch: per day and client group, the locals
    sheet,            \* generate_excel: the rows written
    response          \* what the endpoint answers

vars == <<pc, request, page, all_events, requests, bodies, filtered_events,
          processed, today, analysis, formatted_data, json_groups, sheet,
          response>>

(***************************************************************************)
(* Bounds of the model.                                                    *)
(***************************************************************************)
\* the event source holds at most this many non-empty pages
MaxPages == 2

\* a day of a map handed directly to analyze_data_intelligence holds at
\* most this many entries
MaxEntries == 3

(***************************************************************************)
(* Generic helpers.                                                        *)
(***************************************************************************)
Range(s) == { s[i] : i \in DOMAIN s }

RECURSIVE SumSeq(_)
SumSeq(s) == IF s = <<>> THEN 0 ELSE Head(s) + SumSeq(Tail(s))

RECURSIVE ConcatAll(_)
\* the concatenation of a sequence of sequences
ConcatAll(ss) == IF ss = <<>> THEN <<>> ELSE Head(ss) \o ConcatAll(Tail(ss))

RECURSIVE InsertSorted(_, _)
InsertSorted(sorted, x) ==
    IF sorted = <<>> THEN <<x>>
    ELSE IF x < Head(sorted) THEN <<x>> \o sorted
    ELSE <<Head(sorted)>> \o InsertSorted(Tail(sorted), x)

RECURSIVE SortInts(_)
\* sorted(..) of a list of datetimes (ordinals)
SortInts(s) ==
    IF s = <<>> THEN <<>>
    ELSE InsertSorted(SortInts(SubSeq(s, 1, Len(s) - 1)), s[Len(s)])

\* dict.get(key, default) on a record
Get(d, key, default) == IF key \in DOMAIN d THEN d[key] ELSE default

(***************************************************************************)
(* Texts as character sequences.                                           *)
(***************************************************************************)
OFF == <<"O", "F", "F">>
WEEKEND == <<"W", "E", "E", "K", "E", "N", "D">>
HOLIDAY == <<"H", "O", "L", "I", "D", "A", "Y">>
CI == <<"C", "I">>
DevOps == <<"D", "e", "v", "O", "p", "s">>
EmptyText == <<>>

Whitespace == {" ", "\t", "\n", "\r"}

RECURSIVE LStripChars(_, _)
LStripChars(s, chars) ==
    IF s # <<>> /\ Head(s) \in chars THEN LStripChars(Tail(s), chars) ELSE s

RECURSIVE RStripChars(_, _)
RStripChars(s, chars) ==
    IF s # <<>> /\ s[Len(s)] \in chars
    THEN RStripChars(SubSeq(s, 1, Len(s) - 1), chars)
    ELSE s

\* str.strip(chars): drop leading and trailing characters that are in chars
StripChars(s, chars) == RStripChars(LStripChars(s, chars), chars)

\* str.strip(): drop leading and trailing whitespace
Strip(s) == StripChars(s, Whitespace)

\* ord(c) of the characters the model's texts are written with
CodePoint ==
    ("\t" :> 9) @@ ("\n" :> 10) @@ ("\r" :> 13) @@ (" " :> 32) @@
    ("+" :> 43) @@ ("-" :> 45) @@ ("." :> 46) @@ ("/" :> 47) @@
    ("0" :> 48) @@ ("1" :> 49) @@ ("2" :> 50) @@ ("3" :> 51) @@
    ("4" :> 52) @@ ("5" :> 53) @@ ("6" :> 54) @@ ("7" :> 55) @@
    ("8" :> 56) @@ ("9" :> 57) @@ ("A" :> 65) @@ ("B" :> 66) @@
    ("C" :> 67) @@ ("D" :> 68) @@ ("E" :> 69) @@ ("F" :> 70) @@
    ("G" :> 71) @@ ("H" :> 72) @@ ("I" :> 73) @@ ("J" :> 74) @@
    ("K" :> 75) @@ ("L" :> 76) @@ ("M" :> 77) @@ ("N" :> 78) @@
    ("O" :> 79) @@ ("P" :> 80) @@ ("Q" :> 81) @@ ("R" :> 82) @@
    ("S" :> 83) @@ ("T" :> 84) @@ ("U" :> 85) @@ ("V" :> 86) @@
    ("W" :> 87) @@ ("X" :> 88) @@ ("Y" :> 89) @@ ("Z" :> 90) @@
    ("[" :> 91) @@ ("]" :> 93) @@ ("a" :> 97) @@ ("b" :> 98) @@
    ("c" :> 99) @@ ("d" :> 100) @@ ("e" :> 101) @@ ("f" :> 102) @@
    ("g" :> 103) @@ ("h" :> 104) @@ ("i" :> 105) @@ ("j" :> 106) @@
    ("k" :> 107) @@ ("l" :> 108) @@ ("m" :> 109) @@ ("n" :> 110) @@
    ("o" :> 111) @@ ("p" :> 112) @@ ("q" :> 113) @@ ("r" :> 114) @@
    ("s" :> 115) @@ ("t" :> 116) @@ ("u" :> 117) @@ ("v" :> 118) @@
    ("w" :> 119) @@ ("x" :> 120) @@ ("y" :> 121) @@ ("z" :> 122)

RECURSIVE TextLess(_, _)
\* a < b for two str: lexicographic by code point
TextLess(a, b) ==
    IF b = <<>> THEN FALSE
    ELSE IF a = <<>> THEN TRUE
    ELSE IF Head(a) # Head(b) THEN CodePoint[Head(a)] < CodePoint[Head(b)]
    ELSE TextLess(Tail(a), Tail(b))

RECURSIVE InsertText(_, _)
InsertText(sorted, x) ==
    IF sorted = <<>> THEN <<x>>
    ELSE IF TextLess(x, Head(sorted)) THEN <<x>> \o sorted
    ELSE <<Head(sorted)>> \o InsertText(Tail(sorted), x)

RECURSIVE SortTexts(_)
\* list.sort() of a list of str
SortTexts(s) ==
    IF s = <<>> THEN <<>>
    ELSE InsertText(SortTexts(SubSeq(s, 1, Len(s) - 1)), s[Len(s)])

RECURSIVE Join(_, _)
\* sep.join(texts)
Join(texts, sep) ==
    IF texts = <<>> THEN <<>>
    ELSE IF Len(texts) = 1 THEN texts[1]
    ELSE texts[1] \o sep \o Join(Tail(texts), sep)

RECURSIVE SplitFrom(_, _, _)
SplitFrom(text, c, line) ==
    IF text = <<>> THEN <<line>>
    ELSE IF Head(text) = c THEN <<line>> \o SplitFrom(Tail(text), c, <<>>)
    ELSE SplitFrom(Tail(text), c, Append(line, Head(text)))

\* text.split(c) for a one-character separator
Split(text, c) == SplitFrom(text, c, <<>>)

(***************************************************************************)
(* Dates: datetime.strptime(.., "%Y-%m-%d"), timedelta arithmetic,         *)
(* weekday() and strftime("%d/%m/%Y"), as CPython's datetime computes them.*)
(***************************************************************************)
IsLeap(y) == y % 4 = 0 /\ (y % 100 # 0 \/ y % 400 = 0)

DaysBeforeYear(y) ==
    LET p == y - 1 IN p * 365 + (p \div 4) - (p \div 100) + (p \div 400)

DaysInMonth(y, m) ==
    IF m = 2 THEN (IF IsLeap(y) THEN 29 ELSE 28)
    ELSE IF m \in {4, 6, 9, 11} THEN 30 ELSE 31

RECURSIVE DaysBeforeMonth(_, _)
DaysBeforeMonth(y, m) ==
    IF m = 1 THEN 0 ELSE DaysBeforeMonth(y, m - 1) + DaysInMonth(y, m - 1)

\* strptime of the text <<Y, M, D>>: the datetime, as its ordinal
Strptime(s) == DaysBeforeYear(s[1]) + DaysBeforeMonth(s[1], s[2]) + s[3]

\* the <<year, month, day>> of an ordinal (datetime's _ord2ymd)
Ord2Ymd(ord) ==
    LET n0 == ord - 1
        n400 == n0 \div 146097
        r400 == n0 % 146097
        n100 == r400 \div 36524
        r100 == r400 % 36524
        n4 == r100 \div 1461
        r4 == r100 % 1461
        n1 == r4 \div 365
        n == r4 % 365
        year == n400 * 400 + 1 + n100 * 100 + n4 * 4 + n1
        guess == (n + 50) \div 32
        before(m) == DaysBeforeMonth(year, m)
        month == IF before(guess) > n THEN guess - 1 ELSE guess
    IN IF n1 = 4 \/ n100 = 4
       THEN <<year - 1, 12, 31>>
       ELSE <<year, month, n - before(month) + 1>>

\* date.strftime("%d/%m/%Y")
Strftime(n) == LET ymd == Ord2Ymd(n) IN <<ymd[3], ymd[2], ymd[1]>>

\* datetime.weekday(): Monday is 0, Sunday is 6
Weekday(n) == (n + 6) % 7

\* datetime + timedelta(days = k)
AddDays(n, k) == n + k

(***************************************************************************)
(* holidays.FR(): the French public holidays of the year a date falls in.  *)
(* The movable ones follow Easter Sunday (Gregorian computus).             *)
(***************************************************************************)
EasterSunday(y) ==
    LET a == y % 19
        b == y \div 100
        c == y % 100
        d == b \div 4
        e == b % 4
        f == (b + 8) \div 25
        g == (b - f + 1) \div 3
        h == (19 * a + b - d - g + 15) % 30
        i == c \div 4
        k == c % 4
        l == (32 + 2 * e + 2 * i - h - k) % 7
        m == (a + 11 * h + 22 * l) \div 451
        month == (h + l - 7 * m + 114) \div 31
        day == ((h + l - 7 * m + 114) % 31) + 1
    IN Strptime(<<y, month, day>>)

FixedHolidaysFR ==
    {<<1, 1>>, <<5, 1>>, <<5, 8>>, <<7, 14>>, <<8, 15>>, <<11, 1>>, <<11, 11>>,
     <<12, 25>>}

\* date in holidays.FR()
InHolidaysFR(n) ==
    LET ymd == Ord2Ymd(n)
        easter == EasterSunday(ymd[1])
    IN \/ <<ymd[2], ymd[3]>> \in FixedHolidaysFR
       \/ n \in {AddDays(easter, 1), AddDays(easter, 39), AddDays(easter, 50)}

(***************************************************************************)
(* TimelyReport: the date helpers.                                         *)
(***************************************************************************)
IsWeekend(date) == Weekday(date) >= 5

IsHoliday(date) == InHolidaysFR(date)

\* variant of GetDatesRange whose delta lacks the + 1
GetDatesRangeExclusive(from_date, to_date) ==
    LET start == Strptime(from_date)
        end == Strptime(to_date)
        delta == end - start
    IN IF delta <= 0 THEN <<>> ELSE [x \in 1..delta |-> AddDays(start, x - 1)]

\* [start + timedelta(days=x) for x in range(delta)]; range(delta) is empty
\* when delta <= 0
GetDatesRange(from_date, to_date) ==
    LET start == Strptime(from_date)
        end == Strptime(to_date)
        delta == (end - start) + 1
    IN IF delta <= 0 THEN <<>> ELSE [x \in 1..delta |-> AddDays(start, x - 1)]

(***************************************************************************)
(* Python values.                                                          *)
(***************************************************************************)
\* Optional[..]: None is the empty tuple, a present value v is <<v>>
None == <<>>
Some(v) == <<v>>

\* {} : a dict without keys
EmptyDict == <<>>

\* a str met where a dict is expected (the key of an error object)
StrItem(text) == [str |-> text]
IsStr(item) == "str" \in DOMAIN item

\* a dict kept in insertion order
DictKeys(d) == [i \in DOMAIN d |-> d[i].key]
DictHas(d, k) == \E i \in DOMAIN d : d[i].key = k
DictGet(d, k) == d[CHOOSE i \in DOMAIN d : d[i].key = k].value
DictSet(d, k, v) ==
    IF DictHas(d, k)
    THEN [i \in DOMAIN d |-> IF d[i].key = k THEN [key |-> k, value |-> v] ELSE d[i]]
    ELSE Append(d, [key |-> k, value |-> v])

(***************************************************************************)
(* TimelyReport.get_events: one round of the while loop.                   *)
(***************************************************************************)
PerPage == 250

\* the params of the GET sent for a page
PageRequest(from_date, to_date, p) ==
    [since |-> from_date, upto |-> to_date, page |-> p, per_page |-> PerPage]

\* response.json(): a list of events, or the error object {"detail": ..}
ListBody(events) == [type |-> "list", items |-> events]
ErrorBody == [type |-> "dict", items |-> <<StrItem("detail")>>]

\* `not events`: an empty list (or an empty dict) is falsy
Falsy(body) == Len(body.items) = 0

\* all_events.extend(events): the items iterating the body yields (for a
\* dict, its keys)
Extend(list, body) == list \o body.items

\* variant of NextPage that leaves the page number as it is
NextPageSame(p) == p

NextPage(p) == p + 1

(***************************************************************************)
(* The handlers' client filter.                                            *)
(***************************************************************************)
\* e.get("project", {}).get("client", {}).get("name", "")
ClientNameOf(e) ==
    Get(Get(Get(e, "project", EmptyDict), "client", EmptyDict), "name", "")

\* `if request.client_filter`: None and [] are both falsy
FilterApplies(client_filter) ==
    client_filter # None /\ Len(client_filter[1]) > 0

Returned(v) == [raised |-> FALSE, value |-> v]
Raised(exc) == [raised |-> TRUE, exc |-> exc]

\* filtered_events = [e for e in events if .. in client_filter]
\*                   if request.client_filter else events
FilterEvents(events, client_filter) ==
    IF FilterApplies(client_filter)
    THEN IF \E i \in DOMAIN events : IsStr(events[i])
         THEN Raised("AttributeError")
         ELSE Returned(SelectSeq(events,
                  LAMBDA e : ClientNameOf(e) \in Range(client_filter[1])))
    ELSE Returned(events)

(***************************************************************************)
(* TimelyReport.process_events.                                            *)
(***************************************************************************)
Entry(prefix, note) == <<prefix, note>>

\* the entry list a date starts with
InitialEntries(date) ==
    IF IsWeekend(date) THEN <<Entry(EmptyText, WEEKEND)>>
    ELSE IF IsHoliday(date) THEN <<Entry(EmptyText, HOLIDAY)>>
    ELSE <<>>

RECURSIVE InitialiseDates(_, _)
\* for date in self._get_dates_range(..): data_by_date[date] = ..
InitialiseDates(dates, d) ==
    IF dates = <<>> THEN d
    ELSE InitialiseDates(Tail(dates),
                         DictSet(d, Head(dates), InitialEntries(Head(dates))))

IsSpecial(project) == project \in {CI, DevOps}

\* variant of PrefixOf that brackets every project name
PrefixOfEvery(project) == <<"[">> \o project \o <<"]">>

\* f"[{project}]" if is_special else ""
PrefixOf(project) ==
    IF IsSpecial(project) THEN <<"[">> \o project \o <<"]">> ELSE EmptyText

\* variant of SkipsDay that appends the events of every day
SkipsDayNever(date) == FALSE

\* the day of an event is skipped when it is a weekend or a holiday
SkipsDay(date) == IsWeekend(date) \/ IsHoliday(date)

RECURSIVE AddEventsSetDefault(_, _)
\* variant of AddEvents that creates the list of a date the map lacks
AddEventsSetDefault(events, d) ==
    IF events = <<>> THEN Returned(d)
    ELSE LET event == Head(events) IN
         IF IsStr(event) THEN Raised("TypeError")
         ELSE LET date == Strptime(event.day)
                  project == Get(Get(event, "project", EmptyDict), "name", EmptyText)
                  note == Get(event, "note", EmptyText)
                  sofar == IF DictHas(d, date) THEN DictGet(d, date) ELSE <<>>
              IN IF ~SkipsDay(date)
                 THEN AddEventsSetDefault(Tail(events),
                          DictSet(d, date,
                              Append(sofar, Entry(PrefixOf(project), note))))
                 ELSE AddEventsSetDefault(Tail(events), d)

RECURSIVE AddEvents(_, _)
\* for event in events: .. data_by_date[date].append((prefix, note))
AddEvents(events, d) ==
    IF events = <<>> THEN Returned(d)
    ELSE LET event == Head(events) IN
         IF IsStr(event) THEN Raised("TypeError")
         ELSE LET date == Strptime(event.day)
                  project == Get(Get(event, "project", EmptyDict), "name", EmptyText)
                  note == Get(event, "note", EmptyText)
              IN IF ~SkipsDay(date)
                 THEN IF DictHas(d, date)
                      THEN AddEvents(Tail(events),
                               DictSet(d, date,
                                   Append(DictGet(d, date),
                                          Entry(PrefixOf(project), note))))
                      ELSE Raised("KeyError")
                 ELSE AddEvents(Tail(events), d)

RECURSIVE Reversed(_)
Reversed(s) == IF s = <<>> THEN <<>> ELSE Append(Reversed(Tail(s)), Head(s))

\* variant of ProcessEvents that walks the events last to first
ProcessEventsReversed(events, from_date, to_date) ==
    AddEvents(Reversed(events),
              InitialiseDates(GetDatesRange(from_date, to_date), <<>>))

ProcessEvents(events, from_date, to_date) ==
    AddEvents(events, InitialiseDates(GetDatesRange(from_date, to_date), <<>>))

(***************************************************************************)
(* analyze_data_intelligence: hours per day and per client.                *)
(***************************************************************************)
HalfDay == 1
FullDay == 2

\* prefix.strip("[]") if prefix else ""
ClientOfPrefix(prefix) ==
    IF prefix # EmptyText THEN StripChars(prefix, {"[", "]"}) ELSE EmptyText

RECURSIVE GroupByClient(_, _)
\* entries_by_client[client].append(note), clients in order of appearance
GroupByClient(entries, groups) ==
    IF entries = <<>> THEN groups
    ELSE LET client == ClientOfPrefix(Head(entries)[1])
             note == Head(entries)[2]
             sofar == IF DictHas(groups, client) THEN DictGet(groups, client) ELSE <<>>
         IN GroupByClient(Tail(entries), DictSet(groups, client, Append(sofar, note)))

IsOffNote(note) == Strip(note) = OFF

\* all(note.strip() == "OFF" for note in client_entries)
AllOff(notes) == \A i \in DOMAIN notes : IsOffNote(notes[i])

\* any(note.strip() == "OFF" for note in client_entries)
HasOff(notes) == \E i \in DOMAIN notes : IsOffNote(notes[i])

\* variant of ClientHours that tests has_off before all_off
ClientHoursHasOffFirst(all_off, has_off) ==
    IF has_off THEN HalfDay ELSE IF all_off THEN 0 ELSE FullDay

\* 0 if all_off, else 0.5 if has_off, else 1
ClientHours(all_off, has_off) ==
    IF all_off THEN 0 ELSE IF has_off THEN HalfDay ELSE FullDay

\* variant of ClientData whose all_off is any() instead of all()
ClientDataAnyOff(notes) ==
    [hours |-> ClientHours(AllOff(notes), HasOff(notes)),
     notes |-> notes,
     all_off |-> HasOff(notes),
     has_off |-> HasOff(notes)]

ClientData(notes) ==
    [hours |-> ClientHours(AllOff(notes), HasOff(notes)),
     notes |-> notes,
     all_off |-> AllOff(notes),
     has_off |-> HasOff(notes)]

\* daily_work_data[date] for one day's entries; the entries process_events
\* builds are tuples, so isinstance(entries[0], tuple) holds
DayData(entries) ==
    IF entries = <<>>
    THEN [total_hours |-> 0, clients |-> EmptyDict]
    ELSE LET groups == GroupByClient(entries, EmptyDict)
             clients == [i \in DOMAIN groups |->
                            [key |-> groups[i].key,
                             value |-> ClientData(groups[i].value)]]
         IN [total_hours |-> SumSeq([i \in DOMAIN clients |-> clients[i].value.hours]),
             clients |-> clients]

DailyWorkData(data) ==
    [i \in DOMAIN data |-> [key |-> data[i].key, value |-> DayData(data[i].value)]]

DailyHours(data) ==
    LET dwd == DailyWorkData(data) IN [i \in DOMAIN dwd |-> dwd[i].value.total_hours]

\* work_days = [h for h in daily_hours if h > 0]
WorkDays(daily_hours) == SelectSeq(daily_hours, LAMBDA h : h > 0)

(***************************************************************************)
(* analyze_data_intelligence: the detection rules.  Each rule maps the     *)
(* days, in the order of daily_work_data, to the records it appends.       *)
(***************************************************************************)
Anomaly(type, severity, date) ==
    [type |-> type, severity |-> severity, date |-> Strftime(date)]

MaxHoursPerDay == 24

\* 1. heures_impossibles / heures_negatives
ImpossibleHours(dwd) ==
    ConcatAll([i \in DOMAIN dwd |->
        LET total == dwd[i].value.total_hours IN
        IF total > MaxHoursPerDay * FullDay
        THEN <<Anomaly("heures_impossibles", "error", dwd[i].key)>>
        ELSE IF total < 0
        THEN <<Anomaly("heures_negatives", "error", dwd[i].key)>>
        ELSE <<>>])

\* statistics.mean and statistics.stdev over work_days, kept exact: with
\* n values of sum S, mean = S / n and stdev^2 = Dev2 / (n * n * (n - 1));
\* the comparisons with the thresholds are those of exact arithmetic
Dev2(work_days) ==
    LET n == Len(work_days)
        S == SumSeq(work_days)
    IN SumSeq([i \in DOMAIN work_days |-> (n * work_days[i] - S) * (n * work_days[i] - S)])

\* std_hours_per_day > 0
StdPositive(work_days) == Len(work_days) > 1 /\ Dev2(work_days) > 0

\* total_hours < avg_hours_per_day - 2 * std_hours_per_day
BelowLower(total, work_days) ==
    LET n == Len(work_days)
        S == SumSeq(work_days)
    IN S - n * total > 0
       /\ (S - n * total) * (S - n * total) * (n - 1) > 4 * Dev2(work_days)

\* total_hours > avg_hours_per_day + 2 * std_hours_per_day
AboveUpper(total, work_days) ==
    LET n == Len(work_days)
        S == SumSeq(work_days)
    IN n * total - S > 0
       /\ (n * total - S) * (n * total - S) * (n - 1) > 4 * Dev2(work_days)

\* 2. sous_activite / sur_activite
Outliers(dwd, work_days) ==
    IF StdPositive(work_days)
    THEN ConcatAll([i \in DOMAIN dwd |->
             LET total == dwd[i].value.total_hours IN
             IF total > 0
             THEN IF BelowLower(total, work_days)
                  THEN <<Anomaly("sous_activite", "warning", dwd[i].key)>>
                  ELSE IF AboveUpper(total, work_days)
                  THEN <<Anomaly("sur_activite", "info", dwd[i].key)>>
                  ELSE <<>>
             ELSE <<>>])
    ELSE <<>>

\* variant of EmptyDay without the has_off_clients test
EmptyDayIgnoringOff(date, day_data, now) ==
    IF day_data.total_hours = 0
    THEN IF date > now THEN <<>>
         ELSE IF Weekday(date) >= 5 THEN <<>>
         ELSE IF InHolidaysFR(date) THEN <<>>
         ELSE IF Len(day_data.clients) = 0
              THEN <<Anomaly("jour_vide", "warning", date)>>
              ELSE <<Anomaly("jour_suspect", "info", date)>>
    ELSE <<>>

\* 3. jour_vide / jour_suspect, for one day
EmptyDay(date, day_data, now) ==
    IF day_data.total_hours = 0
    THEN IF date > now THEN <<>>
         ELSE IF Weekday(date) >= 5 THEN <<>>
         ELSE IF InHolidaysFR(date) THEN <<>>
         ELSE LET clients == day_data.clients
                  has_off_clients == \E i \in DOMAIN clients : clients[i].value.all_off
                  all_clients_off == \A i \in DOMAIN clients : clients[i].value.all_off
              IN IF has_off_clients THEN <<>>
                 ELSE IF Len(clients) = 0
                 THEN <<Anomaly("jour_vide", "warning", date)>>
                 ELSE IF ~all_clients_off
                 THEN <<Anomaly("jour_suspect", "info", date)>>
                 ELSE <<>>
    ELSE <<>>

EmptyDays(dwd, now) ==
    ConcatAll([i \in DOMAIN dwd |-> EmptyDay(dwd[i].key, dwd[i].value, now)])

\* 4. gaps between consecutive keys of sorted(data.keys())
Gaps(data) ==
    LET dates_list == SortInts(DictKeys(data)) IN
    IF Len(dates_list) > 1
    THEN ConcatAll([i \in 1..(Len(dates_list) - 1) |->
             LET current_date == dates_list[i]
                 next_date == dates_list[i + 1]
                 gap_days == (next_date - current_date) - 1
             IN IF next_date # AddDays(current_date, 1) /\ gap_days > 0
                THEN <<[debut |-> Strftime(current_date),
                        fin |-> Strftime(next_date),
                        duree |-> gap_days]>>
                ELSE <<>>])
    ELSE <<>>

\* 5. off_avec_notes / demi_journee_sans_off
Incoherences(dwd) ==
    ConcatAll([i \in DOMAIN dwd |->
        LET clients == dwd[i].value.clients IN
        ConcatAll([j \in DOMAIN clients |->
            LET c == clients[j].value
                notes == c.notes
            IN IF c.all_off /\ \E k \in DOMAIN notes : Len(Strip(notes[k])) > 3
               THEN <<[type |-> "off_avec_notes", date |-> Strftime(dwd[i].key),
                       client |-> clients[j].key]>>
               ELSE IF c.has_off /\ ~(\E k \in DOMAIN notes : Strip(notes[k]) = OFF)
               THEN <<[type |-> "demi_journee_sans_off", date |-> Strftime(dwd[i].key),
                       client |-> clients[j].key]>>
               ELSE <<>>])])

\* date.strftime("%A")
WeekdayNames ==
    <<"Monday", "Tuesday", "Wednesday", "Thursday", "Friday", "Saturday", "Sunday">>
WeekdayName(date) == WeekdayNames[Weekday(date) + 1]

\* weekly_pattern[weekday].append(total_hours) for the days with hours
WeeklyPattern(dwd) ==
    LET names == { WeekdayName(dwd[i].key) : i \in {j \in DOMAIN dwd : dwd[j].value.total_hours > 0} }
    IN [name \in names |->
           LET idx == SelectSeq([i \in DOMAIN dwd |-> i],
                          LAMBDA i : dwd[i].value.total_hours > 0
                                     /\ WeekdayName(dwd[i].key) = name)
           IN [j \in DOMAIN idx |-> dwd[idx[j]].value.total_hours]]

CountSeverity(anomalies, severity) ==
    Len(SelectSeq(anomalies, LAMBDA a : a.severity = severity))

\* the value analyze_data_intelligence returns
AnalyzeDataIntelligence(data, from_date, to_date, now) ==
    LET dwd == DailyWorkData(data)
        daily_hours == [i \in DOMAIN dwd |-> dwd[i].value.total_hours]
        work_days == WorkDays(daily_hours)
        anomalies == ImpossibleHours(dwd) \o Outliers(dwd, work_days)
                     \o EmptyDays(dwd, now)
    IN [summary |->
            [periode |-> [debut |-> from_date, fin |-> to_date,
                          nb_jours |-> Len(daily_hours)],
             activite |->
                 [jours_avec_activite |-> Len(work_days),
                  jours_vides |-> Len(SelectSeq(daily_hours, LAMBDA h : h = 0)),
                  total_heures |-> SumSeq(daily_hours)],
             anomalies |->
                 [total |-> Len(anomalies),
                  error |-> CountSeverity(anomalies, "error"),
                  warning |-> CountSeverity(anomalies, "warning"),
                  info |-> CountSeverity(anomalies, "info")]],
        anomalies |-> anomalies,
        incoherences |-> Incoherences(dwd),
        gaps |-> Gaps(data),
        work_days |-> work_days,
        pattern_hebdomadaire |-> WeeklyPattern(dwd),
        daily_work_data |-> dwd,
        donnees_jour |->
            [i \in DOMAIN dwd |->
                [key |-> Strftime(dwd[i].key),
                 value |-> [total_hours |-> dwd[i].value.total_hours,
                            clients |-> [j \in DOMAIN dwd[i].value.clients |->
                                [key |-> dwd[i].value.clients[j].key,
                                 value |-> [hours |-> dwd[i].value.clients[j].value.hours,
                                            notes |-> dwd[i].value.clients[j].value.notes]]]]]]]

(***************************************************************************)
(* generate_report, JSON branch: one record per day of sorted(data.items())*)
(***************************************************************************)
JsonNumber(halves) == [number |-> halves]
JsonString(text) == [string |-> text]

Blank2 == <<"\n", "\n">>
\* ten horizontal bars (U+2015 in the source, written "-" here) between
\* blank lines
Separator == Blank2 \o Join([i \in 1..10 |-> <<"-">>], <<" ">>) \o Blank2

\* the locals of the loop over entries_by_client, one record per client
JsonGroups(entries) ==
    LET groups == GroupByClient(entries, EmptyDict) IN
    [i \in DOMAIN groups |->
        LET client_entries == groups[i].value
            all_off == AllOff(client_entries)
            has_off == HasOff(client_entries)
        IN [client |-> groups[i].key,
            notes |-> client_entries,
            all_off |-> all_off,
            has_off |-> has_off,
            sorted_entries |-> SortTexts(client_entries),
            duration |-> ClientHours(all_off, has_off)]]

\* "off" if all_off else "half_off" if has_off else "work", read after the
\* loop: all_off and has_off are those of the last client of the loop
JsonType(groups) ==
    LET last == groups[Len(groups)] IN
    IF last.all_off THEN "off" ELSE IF last.has_off THEN "half_off" ELSE "work"

JsonRecord(date, entries) ==
    IF entries = <<>>
    THEN [date |-> Strftime(date), client |-> EmptyText,
          duration |-> JsonString(<<"0">>), description |-> EmptyText,
          type |-> "empty"]
    ELSE IF entries[1][2] \in {WEEKEND, HOLIDAY}
    THEN [date |-> Strftime(date), client |-> EmptyText,
          duration |-> JsonString(<<"0">>), description |-> entries[1][2],
          type |-> IF entries[1][2] = WEEKEND THEN "weekend" ELSE "holiday"]
    ELSE LET groups == JsonGroups(entries)
             billed == SelectSeq(groups, LAMBDA g : g.duration > 0)
         IN [date |-> Strftime(date),
             client |-> Join([i \in DOMAIN billed |-> billed[i].client],
                             <<" ", "+", " ">>),
             duration |-> JsonNumber(SumSeq([i \in DOMAIN groups |-> groups[i].duration])),
             description |-> Join([i \in DOMAIN billed |->
                                      Join(billed[i].sorted_entries, Blank2)],
                                  Separator),
             type |-> JsonType(groups)]

\* the days of a map in the order of sorted(data.items())
SortedItems(data) ==
    LET keys == SortInts(DictKeys(data)) IN
    [i \in DOMAIN keys |-> [key |-> keys[i], value |-> DictGet(data, keys[i])]]

FormattedData(data) ==
    LET items == SortedItems(data) IN
    [i \in DOMAIN items |-> JsonRecord(items[i].key, items[i].value)]

\* the client groups the JSON branch computes, with the day of each
JsonGroupsOf(data) ==
    LET items == SortedItems(data) IN
    ConcatAll([i \in DOMAIN items |->
        IF items[i].value = <<>> \/ items[i].value[1][2] \in {WEEKEND, HOLIDAY}
        THEN <<>>
        ELSE LET groups == JsonGroups(items[i].value) IN
             [j \in DOMAIN groups |->
                 [date |-> items[i].key, client |-> groups[j].client,
                  notes |-> groups[j].notes, all_off |-> groups[j].all_off,
                  has_off |-> groups[j].has_off, duration |-> groups[j].duration]]])

(***************************************************************************)
(* TimelyReport.generate_excel and _write_row.                             *)
(***************************************************************************)
RECURSIVE RowNotes(_, _)
\* the notes of a row: the marker alone, or each note with its prefix put
\* before its first line
RowNotes(entries, notes) ==
    IF entries = <<>> THEN notes
    ELSE LET prefix == Head(entries)[1]
             note == Head(entries)[2]
             note_lines == Split(note, "\n")
             first == IF prefix # EmptyText
                      THEN prefix \o <<" ">> \o note_lines[1]
                      ELSE note_lines[1]
         IN IF note \in {WEEKEND, HOLIDAY} THEN <<note>>
            ELSE RowNotes(Tail(entries),
                     Append(notes, Join(<<first>> \o Tail(note_lines), <<"\n">>)))

Pasqal == <<"P", "a", "s", "q", "a", "l">>
Remote == <<"R", "e", "m", "o", "t", "e">>

\* (time, client, location) of a row
RowColumns(notes) ==
    IF notes # <<>>
    THEN IF notes[1] \in {WEEKEND, HOLIDAY} THEN <<<<"0">>, EmptyText, EmptyText>>
         ELSE IF Len(notes) = 1 /\ Strip(notes[1]) = OFF
         THEN <<<<"0">>, EmptyText, EmptyText>>
         ELSE IF \E i \in DOMAIN notes : Strip(notes[i]) = OFF
         THEN <<<<"0", ".", "5">>, Pasqal, Remote>>
         ELSE <<<<"1">>, Pasqal, Remote>>
    ELSE <<<<"0">>, EmptyText, EmptyText>>

WriteRow(row, date, entries) ==
    LET notes == RowNotes(entries, <<>>)
        cols == RowColumns(notes)
    IN [row |-> row, date |-> Strftime(date), time |-> cols[1],
        client |-> cols[2], location |-> cols[3],
        notes |-> Join(notes, Blank2)]

\* variant of GenerateExcel that walks the map in insertion order
GenerateExcelUnsorted(data) ==
    [i \in DOMAIN data |-> WriteRow(i, data[i].key, data[i].value)]

\* for index, (date, entries) in enumerate(sorted(data_by_date.items()), 1)
GenerateExcel(data) ==
    LET items == SortedItems(data) IN
    [i \in DOMAIN items |-> WriteRow(i, items[i].key, items[i].value)]

(***************************************************************************)
(* Inputs: the requests served, the events the source holds, the dates the *)
(* analysis may run on.                                                    *)
(***************************************************************************)
Fri17 == <<2024, 5, 17>>
Sat18 == <<2024, 5, 18>>
Mon20 == <<2024, 5, 20>>   \* Whit Monday, a public holiday
Tue21 == <<2024, 5, 21>>
Sat01 == <<2024, 6, 1>>
Mon03 == <<2024, 6, 3>>
Sun30 == <<2024, 6, 30>>
Sat13 == <<2024, 7, 13>>
Sun14 == <<2024, 7, 14>>   \* 14 July, a public holiday on a Sunday

RangeDates == {Fri17, Mon20, Tue21}

\* (from_date, to_date): every pair of RangeDates, inverted ones included,
\* the week-end of June 1st up to the Monday after it, and the week-end of
\* July 14th
Ranges == (RangeDates \X RangeDates) \cup {<<Sat01, Mon03>>, <<Sat13, Sun14>>}

Acme == "Acme"
Beta == "Beta"

ClientFilters == {None, Some(<<>>), Some(<<Acme>>)}

ReportFormats == {"excel", "json"}

Requests ==
    {[endpoint |-> "analyze-data", from_date |-> r[1], to_date |-> r[2],
      client_filter |-> cf] : r \in Ranges, cf \in ClientFilters}
    \cup
    {[endpoint |-> "generate-report", from_date |-> r[1], to_date |-> r[2],
      client_filter |-> cf, format |-> f] :
        r \in Ranges, cf \in ClientFilters, f \in ReportFormats}

Web == <<"W", "e", "b">>
Dev == <<"d", "e", "v">>
SpacedOff == <<" ", "O", "F", "F", "\n">>

Project(name, client) == [name |-> name, client |-> [name |-> client]]
Event(day, project, note) == [day |-> day, project |-> project, note |-> note]

\* the events the source may hold
Events ==
    {Event(Fri17, Project(Web, Acme), SpacedOff),
     Event(Fri17, Project(Web, Acme), Dev),
     Event(Fri17, Project(CI, Beta), OFF),
     Event(Fri17, Project(DevOps, Beta), Dev),
     Event(Tue21, [name |-> Web], Dev),
     Event(Sat18, Project(Web, Acme), Dev),
     Event(Mon20, Project(CI, Beta), OFF)}

\* pages of two events
Pairs ==
    {<<Event(Fri17, Project(CI, Beta), OFF),
       Event(Fri17, Project(DevOps, Beta), Dev)>>,
     <<Event(Fri17, Project(Web, Acme), SpacedOff),
       Event(Tue21, [name |-> Web], Dev)>>}

\* what the source may answer to a page request
Bodies ==
    {ListBody(<<>>), ErrorBody}
    \cup {ListBody(<<e>>) : e \in Events}
    \cup {ListBody(p) : p \in Pairs}

Todays == {Strptime(Fri17), Strptime(Sun30)}

(***************************************************************************)
(* The state machine.                                                      *)
(***************************************************************************)
Init ==
    /\ pc = "idle"
    /\ request = None
    /\ page = 0
    /\ all_events = <<>>
    /\ requests = <<>>
    /\ bodies = <<>>
    /\ filtered_events = None
    /\ processed = None
    /\ today = None
    /\ analysis = None
    /\ formatted_data = None
    /\ json_groups = None
    /\ sheet = None
    /\ response = None

\* a handler starts and enters report.get_events
Request(r) ==
    /\ pc = "idle"
    /\ pc' = "get_events"
    /\ request' = r
    /\ page' = 1
    /\ all_events' = <<>>
    /\ UNCHANGED <<requests, bodies, filtered_events, processed, today,
                   analysis, formatted_data, json_groups, sheet, response>>

\* get_events: one GET and the handling of its body
GetEventsPage(body) ==
    /\ pc = "get_events"
    /\ page <= MaxPages \/ Falsy(body)
    /\ requests' = Append(requests,
                          PageRequest(request.from_date, request.to_date, page))
    /\ bodies' = Append(bodies, body)
    /\ IF Falsy(body)
       THEN /\ pc' = "fetched"
            /\ UNCHANGED <<page, all_events>>
       ELSE /\ all_events' = Extend(all_events, body)
            /\ page' = NextPage(page)
            /\ pc' = "get_events"
    /\ UNCHANGED <<request, filtered_events, processed, today, analysis,
                   formatted_data, json_groups, sheet, response>>

HTTPException(status_code, exc) == [status_code |-> status_code, detail |-> exc]

\* get_events: the GET itself raises (source unreachable, body not JSON);
\* the handler's except clause answers 500
GetEventsRaises ==
    /\ pc = "get_events"
    /\ requests' = Append(requests,
                          PageRequest(request.from_date, request.to_date, page))
    /\ pc' = "done"
    /\ response' = HTTPException(500, "RequestError")
    /\ UNCHANGED <<request, page, all_events, bodies, filtered_events,
                   processed, today, analysis, formatted_data, json_groups, sheet>>

\* the filter and process_events, common to both handlers
Aggregate(events, req) ==
    LET f == FilterEvents(events, req.client_filter) IN
    IF f.raised THEN [filtered |-> None, processed |-> None, exc |-> f.exc]
    ELSE LET p == ProcessEvents(f.value, req.from_date, req.to_date) IN
         [filtered |-> Some(f.value),
          processed |-> Some(p),
          exc |-> IF p.raised THEN p.exc ELSE "none"]

\* analyze_data, after get_events returned
AnalyzeData(now) ==
    /\ pc = "fetched"
    /\ request.endpoint = "analyze-data"
    /\ LET a == Aggregate(all_events, request) IN
       /\ filtered_events' = a.filtered
       /\ processed' = a.processed
       /\ IF a.exc # "none"
          THEN /\ response' = HTTPException(500, a.exc)
               /\ UNCHANGED <<today, analysis>>
          ELSE /\ today' = Some(now)
               /\ analysis' = Some(AnalyzeDataIntelligence(a.processed[1].value,
                                        request.from_date, request.to_date, now))
               /\ response' = [status_code |-> 200, content |-> "analysis"]
    /\ pc' = "done"
    /\ UNCHANGED <<request, page, all_events, requests, bodies,
                   formatted_data, json_groups, sheet>>

\* generate_report, after get_events returned
GenerateReport ==
    /\ pc = "fetched"
    /\ request.endpoint = "generate-report"
    /\ LET a == Aggregate(all_events, request) IN
       /\ filtered_events' = a.filtered
       /\ processed' = a.processed
       /\ IF a.exc # "none"
          THEN /\ response' = HTTPException(500, a.exc)
               /\ UNCHANGED <<formatted_data, json_groups, sheet>>
          ELSE IF request.format = "json"
          THEN /\ formatted_data' = Some(FormattedData(a.processed[1].value))
               /\ json_groups' = Some(JsonGroupsOf(a.processed[1].value))
               /\ response' = [status_code |-> 200, content |-> "json"]
               /\ UNCHANGED sheet
          ELSE /\ sheet' = Some(GenerateExcel(a.processed[1].value))
               /\ response' = [status_code |-> 200, content |-> "xlsx"]
               /\ UNCHANGED <<formatted_data, json_groups>>
    /\ pc' = "done"
    /\ UNCHANGED <<request, page, all_events, requests, bodies, today, analysis>>

Next ==
    \/ \E r \in Requests : Request(r)
    \/ \E body \in Bodies : GetEventsPage(body)
    \/ GetEventsRaises
    \/ \E now \in Todays : AnalyzeData(now)
    \/ GenerateReport

Spec == Init /\ [][Next]_vars

(***************************************************************************)
(* TimelyReport.generate_excel called on a map of its own: the caller's    *)
(* dict holds the days in any insertion order.                             *)
(***************************************************************************)
ExcelDates == {Strptime(Fri17), Strptime(Sat18), Strptime(Mon20), Strptime(Tue21)}

\* the entry lists a day of the map may hold
DayEntries(date) ==
    {InitialEntries(date)}
    \cup (IF SkipsDay(date) THEN {}
          ELSE {<<Entry(EmptyText, Dev)>>, <<Entry(PrefixOf(CI), OFF)>>})

ExcelItems ==
    UNION {{[key |-> d, value |-> v] : v \in DayEntries(d)} : d \in ExcelDates}

\* the dicts over ExcelDates: any keys, inserted in any order, each once
ExcelMaps ==
    {m \in UNION {[1..n -> ExcelItems] : n \in 0..Cardinality(ExcelDates)} :
        \A i, j \in DOMAIN m : i # j => m[i].key # m[j].key}

InitExcel ==
    /\ pc = "generate_excel"
    /\ processed \in {Some(Returned(m)) : m \in ExcelMaps}
    /\ request = None
    /\ page = 0
    /\ all_events = <<>>
    /\ requests = <<>>
    /\ bodies = <<>>
    /\ filtered_events = None
    /\ today = None
    /\ analysis = None
    /\ formatted_data = None
    /\ json_groups = None
    /\ sheet = None
    /\ response = None

\* generate_excel: the rows written to the sheet before workbook.save
GenerateExcelCall ==
    /\ pc = "generate_excel"
    /\ sheet' = Some(GenerateExcel(processed[1].value))
    /\ pc' = "done"
    /\ UNCHANGED <<request, page, all_events, requests, bodies, filtered_events,
                   processed, today, analysis, formatted_data, json_groups,
                   response>>

NextExcel == GenerateExcelCall

SpecExcel == InitExcel /\ [][NextExcel]_vars

(***************************************************************************)
(* Vocabulary of the properties.                                           *)
(***************************************************************************)
\* process_events was called and returned a map
ProcessReturned == processed # None /\ ~processed[1].raised
Data == processed[1].value

FromDay == Strptime(request.from_date)
ToDay == Strptime(request.to_date)

\* get_events returned its list (it did not raise, it is not still looping)
GetEventsReturned == pc \in {"fetched", "done"} /\ Len(bodies) = Len(requests)

\* the note is "OFF" between two runs of whitespace
TrimmedIsOff(note) ==
    \E i \in 1..(Len(note) - 2) :
        /\ SubSeq(note, i, i + 2) = OFF
        /\ \A k \in 1..(i - 1) : note[k] \in Whitespace
        /\ \A k \in (i + 3)..Len(note) : note[k] \in Whitespace

\* the duration the OFF rule gives a group of notes
OffRuleHours(notes) ==
    LET offs == {k \in DOMAIN notes : TrimmedIsOff(notes[k])} IN
    IF offs = DOMAIN notes THEN 0
    ELSE IF offs # {} THEN HalfDay
    ELSE FullDay

(***************************************************************************)
(* C1: for a range with from_date <= to_date, the map process_events       *)
(* returns has one key per calendar date of the inclusive range and no     *)
(* other: (to_date - from_date).days + 1 keys, which in insertion order    *)
(* start at from_date and increase by one day each.                        *)
(***************************************************************************)
C1_OneEntryPerDate ==
    (ProcessReturned /\ FromDay <= ToDay) =>
        LET keys == DictKeys(Data) IN
        /\ Len(keys) = (ToDay - FromDay) + 1
        /\ Range(keys) = FromDay..ToDay
        /\ \A i \in DOMAIN keys : keys[i] = FromDay + (i - 1)
        /\ \A i, j \in DOMAIN keys : i # j => keys[i] # keys[j]

\* a five-day range was aggregated from two events or more
C1_Witness ==
    /\ ProcessReturned
    /\ ToDay - FromDay = 4
    /\ Len(DictKeys(Data)) = 5
    /\ Len(filtered_events[1]) >= 2

(***************************************************************************)
(* C2: a Saturday or Sunday of the range holds the single entry WEEKEND,   *)
(* a public holiday on a weekday the single entry HOLIDAY, whatever events *)
(* are dated on that day.                                                  *)
(***************************************************************************)
C2_MarkersOnly ==
    ProcessReturned =>
        \A i \in DOMAIN Data :
            LET date == Data[i].key IN
            /\ Weekday(date) \in {5, 6} =>
                   Data[i].value = <<Entry(EmptyText, WEEKEND)>>
            /\ (Weekday(date) \notin {5, 6} /\ InHolidaysFR(date)) =>
                   Data[i].value = <<Entry(EmptyText, HOLIDAY)>>

\* events dated on a Saturday and on a holiday Monday of the range were
\* handed to process_events, which returned
C2_Witness ==
    /\ ProcessReturned
    /\ DictHas(Data, Strptime(Sat18)) /\ DictHas(Data, Strptime(Mon20))
    /\ \E i, j \in DOMAIN filtered_events[1] :
           /\ filtered_events[1][i].day = Sat18
           /\ filtered_events[1][j].day = Mon20

(***************************************************************************)
(* C3: in analyze_data_intelligence and in the JSON branch of              *)
(* generate_report, the duration of every client group of every day is 0   *)
(* when every trimmed note is "OFF", 0.5 when some are and some are not,   *)
(* 1 when none is; no other value occurs.                                  *)
(***************************************************************************)
C3_GroupDuration ==
    /\ analysis # None =>
           \A i \in DOMAIN analysis[1].daily_work_data :
               LET clients == analysis[1].daily_work_data[i].value.clients IN
               \A j \in DOMAIN clients :
                   /\ clients[j].value.hours = OffRuleHours(clients[j].value.notes)
                   /\ clients[j].value.hours \in {0, HalfDay, FullDay}
    /\ json_groups # None =>
           \A i \in DOMAIN json_groups[1] :
               /\ json_groups[1][i].duration = OffRuleHours(json_groups[1][i].notes)
               /\ json_groups[1][i].duration \in {0, HalfDay, FullDay}

\* a day of the JSON report has a group worth 0.5 made of a note with
\* whitespace around OFF and of another note
C3_Witness ==
    /\ json_groups # None
    /\ \E i \in DOMAIN json_groups[1] :
           /\ json_groups[1][i].duration = HalfDay
           /\ Range(json_groups[1][i].notes) = {SpacedOff, Dev}

\* the dates of the map that hold at least one event
EventDates ==
    {Data[i].key : i \in {j \in DOMAIN Data :
        /\ Data[j].value # <<>>
        /\ Data[j].value[1][2] \notin {WEEKEND, HOLIDAY}}}

(***************************************************************************)
(* C4: in the analysis of the map of process_events, the total of every    *)
(* EMPTY, WEEKEND or HOLIDAY day is 0 and the day carries no client data.  *)
(***************************************************************************)
C4_NonWorkDaysCountZero ==
    analysis # None =>
        \A i \in DOMAIN Data :
            (\/ Data[i].value = <<>>
             \/ IsWeekend(Data[i].key)
             \/ IsHoliday(Data[i].key)) =>
                /\ analysis[1].daily_work_data[i].value.total_hours = 0
                /\ analysis[1].daily_work_data[i].value.clients = EmptyDict

(***************************************************************************)
(* C5: two dates with events that are consecutive among the dates with     *)
(* events and N >= 1 days apart yield exactly one gap record of length N   *)
(* bounded by them, and no gap record spans a date with events.            *)
(***************************************************************************)
C5_GapsBetweenEventDates ==
    analysis # None =>
        LET gaps == analysis[1].gaps IN
        /\ \A d1, d2 \in EventDates :
               (/\ d1 < d2
                /\ d2 - d1 - 1 >= 1
                /\ ~(\E d \in EventDates : d1 < d /\ d < d2)) =>
                   Cardinality({k \in DOMAIN gaps :
                       gaps[k] = [debut |-> Strftime(d1), fin |-> Strftime(d2),
                                  duree |-> d2 - d1 - 1]}) = 1
        /\ \A k \in DOMAIN gaps :
               ~(\E d1, d, d2 \in EventDates \cup Range(DictKeys(Data)) :
                     /\ gaps[k].debut = Strftime(d1) /\ gaps[k].fin = Strftime(d2)
                     /\ d1 < d /\ d < d2 /\ d \in EventDates)

(***************************************************************************)
(* C6: for a day of total 0 that is neither a week-end, nor a holiday, nor *)
(* after the current date, one jour_vide is emitted exactly when the day   *)
(* has no client group, one jour_suspect exactly when it has groups none   *)
(* of which is all OFF, nothing when some group is all OFF; no other day   *)
(* gets a jour_vide or a jour_suspect.  The range 2024-06-01..2024-06-03   *)
(* without events gives WEEKEND, WEEKEND, EMPTY and one jour_vide, on the  *)
(* Monday.                                                                 *)
(***************************************************************************)
C6_EmptyWeekdayCheck ==
    analysis # None =>
        LET anomalies == analysis[1].anomalies
            dwd == analysis[1].daily_work_data
            now == today[1]
            Count(type, date) ==
                Cardinality({k \in DOMAIN anomalies :
                    anomalies[k].type = type /\ anomalies[k].date = Strftime(date)})
            empties == SelectSeq(anomalies,
                           LAMBDA x : x.type \in {"jour_vide", "jour_suspect"})
        IN /\ \A i \in DOMAIN dwd :
                  LET date == dwd[i].key
                      clients == dwd[i].value.clients
                      eligible == /\ dwd[i].value.total_hours = 0
                                  /\ Weekday(date) \notin {5, 6}
                                  /\ ~InHolidaysFR(date)
                                  /\ date <= now
                      some_all_off ==
                          \E j \in DOMAIN clients :
                              \A k \in DOMAIN clients[j].value.notes :
                                  TrimmedIsOff(clients[j].value.notes[k])
                  IN /\ Count("jour_vide", date) =
                            (IF eligible /\ Len(clients) = 0 THEN 1 ELSE 0)
                     /\ Count("jour_suspect", date) =
                            (IF eligible /\ Len(clients) > 0 /\ ~some_all_off
                             THEN 1 ELSE 0)
           /\ \A k \in DOMAIN empties :
                  \E i \in DOMAIN dwd : empties[k].date = Strftime(dwd[i].key)
           /\ (/\ request.from_date = Sat01 /\ request.to_date = Mon03
               /\ filtered_events[1] = <<>>
               /\ now >= Strptime(Mon03)) =>
                  /\ [i \in DOMAIN Data |-> Data[i].value] =
                         <<<<Entry(EmptyText, WEEKEND)>>,
                           <<Entry(EmptyText, WEEKEND)>>, <<>>>>
                  /\ empties = <<[type |-> "jour_vide", severity |-> "warning",
                                  date |-> <<3, 6, 2024>>]>>

\* an analysis run after the range: the Friday is all OFF and not flagged,
\* the Tuesday has no event and is flagged jour_vide
C6_Witness ==
    /\ analysis # None
    /\ today[1] >= ToDay
    /\ \E i, j \in DOMAIN analysis[1].daily_work_data :
           LET off == analysis[1].daily_work_data[i]
               empty == analysis[1].daily_work_data[j]
           IN /\ off.key = Strptime(Fri17)
              /\ off.value.total_hours = 0
              /\ Len(off.value.clients) > 0
              /\ empty.key = Strptime(Tue21)
              /\ Len(empty.value.clients) = 0
              /\ \E k \in DOMAIN analysis[1].anomalies :
                     analysis[1].anomalies[k] =
                         [type |-> "jour_vide", severity |-> "warning",
                          date |-> <<21, 5, 2024>>]

(***************************************************************************)
(* C7: with from_date > to_date, once the events are fetched the run ends  *)
(* with a client error: process_events returns no map and no report or     *)
(* analysis is answered.                                                   *)
(***************************************************************************)
C7_InvertedRangeRejected ==
    (pc = "done" /\ GetEventsReturned /\ FromDay > ToDay) =>
        /\ ~ProcessReturned
        /\ response.status_code \in 400..499

(***************************************************************************)
(* C8: whenever client_filter is present, an empty one included, the       *)
(* events handed to process_events are the fetched events whose client     *)
(* name is in client_filter, in their order; all of them only when         *)
(* client_filter is absent.                                                *)
(***************************************************************************)
C8_FilterWheneverPresent ==
    (filtered_events # None /\ \A i \in DOMAIN all_events : ~IsStr(all_events[i])) =>
        filtered_events[1] =
            (IF request.client_filter # None
             THEN SelectSeq(all_events,
                      LAMBDA e : ClientNameOf(e) \in Range(request.client_filter[1]))
             ELSE all_events)

(***************************************************************************)
(* C9: once the source has answered a page request with an error object,   *)
(* get_events requests no further page and keeps no item of that object as *)
(* an event, and the run ends with a server error and no payload.          *)
(***************************************************************************)
C9_ErrorBodyEndsRun ==
    (\E i \in DOMAIN bodies : bodies[i] = ErrorBody) =>
        /\ pc # "get_events"
        /\ \A k \in DOMAIN all_events : ~IsStr(all_events[k])
        /\ pc = "done" => response.status_code = 500

(***************************************************************************)
(* C10: get_events requests the pages 1, 2, 3, .. in order, stops at the   *)
(* first empty page and sends nothing after it, returns only once a page   *)
(* was empty, and what it accumulates is the concatenation, in page order, *)
(* of the pages before the empty one.                                      *)
(***************************************************************************)
C10_Pagination ==
    /\ \A i \in DOMAIN requests : requests[i].page = i
    /\ \A i \in DOMAIN bodies :
           Falsy(bodies[i]) =>
               i = Len(bodies) /\ i = Len(requests) /\ pc # "get_events"
    /\ GetEventsReturned => (bodies # <<>> /\ Falsy(bodies[Len(bodies)]))
    /\ pc = "get_events" => page = Len(bodies) + 1
    /\ all_events = ConcatAll([i \in DOMAIN bodies |-> bodies[i].items])

\* get_events returned after two non-empty pages and an empty third one
C10_Witness ==
    /\ pc = "fetched"
    /\ Len(requests) = 3
    /\ Len(all_events) = 3
    /\ Len(bodies[1].items) = 1
    /\ Len(bodies[2].items) = 2
    /\ Falsy(bodies[3])

\* the notes of a group, or of a day, that are "OFF" once trimmed
OffNotes(notes) == {k \in DOMAIN notes : TrimmedIsOff(notes[k])}

\* the client groups the JSON branch computed for the day of a record
GroupsOfRecord(rec) ==
    SelectSeq(json_groups[1], LAMBDA g : Strftime(g.date) = rec.date)

(***************************************************************************)
(* C11: in the JSON report, the type of a working day with entries follows *)
(* the per-client durations: "off" exactly when every client group is all  *)
(* OFF (duration 0), "work" exactly when no group holds an OFF note,       *)
(* "half_off" otherwise, whatever the order of the groups.                 *)
(***************************************************************************)
C11_TypeMatchesDuration ==
    formatted_data # None =>
        \A i \in DOMAIN formatted_data[1] :
            LET rec == formatted_data[1][i]
                groups == GroupsOfRecord(rec)
                every_all_off ==
                    \A j \in DOMAIN groups :
                        OffNotes(groups[j].notes) = DOMAIN groups[j].notes
                none_off ==
                    \A j \in DOMAIN groups : OffNotes(groups[j].notes) = {}
            IN groups # <<>> =>
                   /\ rec.type = (IF every_all_off THEN "off"
                                  ELSE IF none_off THEN "work"
                                  ELSE "half_off")
                   /\ (rec.type = "off") <=> (rec.duration = JsonNumber(0))

\* the numeral the spreadsheet writes for a duration
HoursText(halves) ==
    IF halves = 0 THEN <<"0">>
    ELSE IF halves = HalfDay THEN <<"0", ".", "5">>
    ELSE <<"1">>

(***************************************************************************)
(* C12: in the spreadsheet, the duration of a day that is neither a        *)
(* week-end nor a holiday is the OFF rule applied to the notes of the      *)
(* day's events ("0" without notes or with only OFF notes, "0.5" with OFF  *)
(* notes and others, "1" without OFF note), and the location is "Remote"   *)
(* exactly when that duration is not "0".                                  *)
(***************************************************************************)
C12_SheetDuration ==
    sheet # None =>
        \A i \in DOMAIN sheet[1] :
            LET row == sheet[1][i]
                day == SortedItems(Data)[i]
                notes == [k \in DOMAIN day.value |-> day.value[k][2]]
            IN (~IsWeekend(day.key) /\ ~IsHoliday(day.key)) =>
                   /\ row.time = HoursText(OffRuleHours(notes))
                   /\ (row.location = Remote) <=> (row.time # <<"0">>)
                   /\ row.location \in {Remote, EmptyText}

(***************************************************************************)
(* C13: generate_excel writes one row per date of the map and no header    *)
(* row: the k-th smallest date is on row k, rows are numbered 1, 2, ..     *)
(* without hole, in strictly ascending date order whatever the insertion   *)
(* order of the map.                                                       *)
(***************************************************************************)
C13_OneRowPerDate ==
    (sheet # None /\ ProcessReturned) =>
        LET rows == sheet[1]
            keys == Range(DictKeys(Data))
        IN /\ Len(rows) = Cardinality(keys)
           /\ \A k \in DOMAIN rows :
                  /\ rows[k].row = k
                  /\ \E d \in keys :
                         /\ rows[k].date = Strftime(d)
                         /\ Cardinality({e \in keys : e < d}) = k - 1
           /\ \A k \in DOMAIN rows : \A l \in DOMAIN rows :
                  k < l =>
                      \E d, e \in keys :
                          /\ rows[k].date = Strftime(d)
                          /\ rows[l].date = Strftime(e)
                          /\ d < e

\* a sheet written from a map of four days inserted latest first
C13_Witness ==
    /\ sheet # None /\ ProcessReturned
    /\ DictKeys(Data) = <<Strptime(Tue21), Strptime(Mon20), Strptime(Sat18),
                           Strptime(Fri17)>>
    /\ Len(sheet[1]) = 4
    /\ sheet[1][1].date = <<17, 5, 2024>>

\* the events handed to process_events that are dated on a day, in their
\* order
EventsDated(date) ==
    SelectSeq(filtered_events[1], LAMBDA e : Strptime(e.day) = date)

\* the prefix of the entry of an event
BracketedProject(event) ==
    LET name == IF "project" \in DOMAIN event /\ "name" \in DOMAIN event.project
                THEN event.project.name ELSE <<>>
    IN IF name = <<"C", "I">> THEN <<"[", "C", "I", "]">>
       ELSE IF name = <<"D", "e", "v", "O", "p", "s">>
       THEN <<"[", "D", "e", "v", "O", "p", "s", "]">>
       ELSE <<>>

(***************************************************************************)
(* C14: for every date of the range that is neither a week-end nor a       *)
(* holiday, the entry list of process_events is the sequence of the        *)
(* (prefix, note) pairs of the events dated that day, in input order,      *)
(* with prefix "[CI]" or "[DevOps]" for these two projects and "" for any  *)
(* other; a day without events keeps the empty list.                       *)
(***************************************************************************)
C14_EntriesInInputOrder ==
    ProcessReturned =>
        \A i \in DOMAIN Data :
            LET date == Data[i].key
                dated == EventsDated(date)
            IN (Weekday(date) \notin {5, 6} /\ ~InHolidaysFR(date)) =>
                   /\ Len(Data[i].value) = Len(dated)
                   /\ \A k \in DOMAIN dated :
                          Data[i].value[k] =
                              <<BracketedProject(dated[k]), dated[k].note>>

\* a Friday that got three events or more, of a prefixed project and of
\* another, while another day of the range got none
C14_Witness ==
    /\ ProcessReturned
    /\ \E i, j \in DOMAIN Data :
           /\ Data[i].key = Strptime(Fri17)
           /\ Len(Data[i].value) >= 3
           /\ \E k, l \in DOMAIN Data[i].value :
                  /\ Data[i].value[k][1] = EmptyText
                  /\ Data[i].value[l][1] # EmptyText
                  /\ Data[i].value[k][2] # Data[i].value[l][2]
           /\ Data[j].key = Strptime(Tue21)
           /\ Data[j].value = <<>>

\* the endpoint answered an error and built no payload
ErrorWithoutPayload ==
    /\ pc = "done"
    /\ DOMAIN response = {"status_code", "detail"}
    /\ response.status_code \in 400..599
    /\ analysis = None /\ formatted_data = None /\ json_groups = None
    /\ sheet = None

(***************************************************************************)
(* C15: process_events either raises, and the endpoint then answers an     *)
(* error without payload, or returns a map whose keys are exactly the      *)
(* dates of the requested range, each once, holding every event handed to  *)
(* it that is dated on a working day; events dated outside the range never *)
(* add a key, and no map filled in part is returned after a failure.       *)
(***************************************************************************)
C15_AllOrNothing ==
    processed # None =>
        IF processed[1].raised
        THEN /\ DOMAIN processed[1] = {"raised", "exc"}
             /\ ErrorWithoutPayload
        ELSE LET keys == DictKeys(Data) IN
             /\ Range(keys) = FromDay..ToDay
             /\ \A i, j \in DOMAIN keys : i # j => keys[i] # keys[j]
             /\ \A k \in DOMAIN filtered_events[1] :
                    LET date == Strptime(filtered_events[1][k].day) IN
                    (Weekday(date) \notin {5, 6} /\ ~InHolidaysFR(date)) =>
                        /\ date \in FromDay..ToDay
                        /\ \E i \in DOMAIN Data :
                               /\ Data[i].key = date
                               /\ Len(Data[i].value) = Len(EventsDated(date))
             /\ response.status_code = 200

\* process_events raised on an event dated after the range, once an event
\* of the range had been appended
C15_Witness ==
    /\ processed # None
    /\ processed[1].raised
    /\ processed[1].exc = "KeyError"
    /\ FromDay <= ToDay
    /\ Len(filtered_events[1]) = 2
    /\ Strptime(filtered_events[1][1].day) \in FromDay..ToDay
    /\ Strptime(filtered_events[1][2].day) > ToDay
    /\ response.status_code = 500

(***************************************************************************)
(* analyze_data_intelligence called on a map of its own: one working day   *)
(* holding any entries, followed or not by a week-end day.                 *)
(***************************************************************************)
OffAndMore == <<"O", "F", "F", " ", "p", "m">>

AnalysisNotes == {OFF, SpacedOff, OffAndMore, Dev}

AnalysisEntries ==
    {Entry(prefix, note) : prefix \in {EmptyText, PrefixOf(CI)},
                           note \in AnalysisNotes}

AnalysisMaps ==
    LET lists == UNION {[1..n -> AnalysisEntries] : n \in 0..MaxEntries}
        friday(l) == [key |-> Strptime(Fri17), value |-> l]
        saturday == [key |-> Strptime(Sat18),
                     value |-> InitialEntries(Strptime(Sat18))]
    IN {<<friday(l)>> : l \in lists} \cup {<<friday(l), saturday>> : l \in lists}

InitAnalysis ==
    /\ pc = "analyze_data_intelligence"
    /\ processed \in {Some(Returned(m)) : m \in AnalysisMaps}
    /\ request = None
    /\ page = 0
    /\ all_events = <<>>
    /\ requests = <<>>
    /\ bodies = <<>>
    /\ filtered_events = None
    /\ today = None
    /\ analysis = None
    /\ formatted_data = None
    /\ json_groups = None
    /\ sheet = None
    /\ response = None

\* analyze_data_intelligence(data, from_date, to_date), from_date and
\* to_date being the first and the last day of the map
AnalyzeDataIntelligenceCall(now) ==
    /\ pc = "analyze_data_intelligence"
    /\ LET data == processed[1].value IN
       analysis' = Some(AnalyzeDataIntelligence(data,
                            Ord2Ymd(data[1].key), Ord2Ymd(data[Len(data)].key),
                            now))
    /\ today' = Some(now)
    /\ pc' = "done"
    /\ UNCHANGED <<request, page, all_events, requests, bodies, filtered_events,
                   processed, formatted_data, json_groups, sheet, response>>

NextAnalysis == \E now \in Todays : AnalyzeDataIntelligenceCall(now)

SpecAnalysis == InitAnalysis /\ [][NextAnalysis]_vars

\* the client groups of the analysis, over all days
AnalysisGroups ==
    ConcatAll([i \in DOMAIN analysis[1].daily_work_data |->
        LET clients == analysis[1].daily_work_data[i].value.clients IN
        [j \in DOMAIN clients |-> clients[j].value]])

(***************************************************************************)
(* C16: the incoherences list of analyze_data_intelligence is empty for    *)
(* every map: no off_avec_notes, no demi_journee_sans_off; a group whose   *)
(* notes are "OFF" and any other text counts 0.5.                          *)
(***************************************************************************)
C16_NoIncoherence ==
    analysis # None =>
        /\ analysis[1].incoherences = <<>>
        /\ \A i \in DOMAIN AnalysisGroups :
               LET notes == AnalysisGroups[i].notes IN
               (/\ \E k \in DOMAIN notes : notes[k] = OFF
                /\ \E k \in DOMAIN notes : ~TrimmedIsOff(notes[k])) =>
                   AnalysisGroups[i].hours = HalfDay

\* the analysis of a day with a group made of "OFF" and of a longer note
\* that starts with OFF, and with a group that is all OFF
C16_Witness ==
    /\ analysis # None
    /\ \E i, j \in DOMAIN AnalysisGroups :
           /\ AnalysisGroups[i].notes = <<OFF, OffAndMore>>
           /\ AnalysisGroups[i].has_off /\ ~AnalysisGroups[i].all_off
           /\ AnalysisGroups[j].notes = <<SpacedOff>>
           /\ AnalysisGroups[j].all_off

(***************************************************************************)
(* C17: after process_events and analyze_data_intelligence, every day has  *)
(* at most three client groups, of keys "", "CI" and "DevOps", and a total *)
(* that is a multiple of 0.5 between 0 and 3; no heures_impossibles or     *)
(* heures_negatives anomaly is emitted, the summary counts 0 anomaly of    *)
(* severity error, and its total is its warning count plus its info count. *)
(***************************************************************************)
C17_NoImpossibleHours ==
    analysis # None =>
        LET dwd == analysis[1].daily_work_data
            anomalies == analysis[1].anomalies
            counts == analysis[1].summary.anomalies
        IN /\ \A i \in DOMAIN dwd :
                  LET clients == dwd[i].value.clients IN
                  /\ Len(clients) <= 3
                  /\ \A j \in DOMAIN clients :
                         clients[j].key \in {<<>>, <<"C", "I">>,
                                             <<"D", "e", "v", "O", "p", "s">>}
                  /\ \A j, k \in DOMAIN clients :
                         j # k => clients[j].key # clients[k].key
                  /\ dwd[i].value.total_hours \in 0..(3 * FullDay)
           /\ \A k \in DOMAIN anomalies :
                  /\ anomalies[k].type \notin {"heures_impossibles",
                                                "heures_negatives"}
                  /\ anomalies[k].severity # "error"
           /\ counts.error = 0
           /\ counts.total = Len(anomalies)
           /\ counts.total = counts.warning + counts.info

\* the analysis of a range where a day has the three client groups and
\* another day is flagged
C17_Witness ==
    /\ analysis # None
    /\ request # None
    /\ \E i \in DOMAIN analysis[1].daily_work_data :
           /\ Len(analysis[1].daily_work_data[i].value.clients) = 3
           /\ analysis[1].daily_work_data[i].value.total_hours > 0
    /\ analysis[1].summary.anomalies.total > 0

====
